---- MODULE Spec2Model ----
(***************************************************************************)
(* The Twitter extraction nodes of DataThief.                              *)
(*                                                                         *)
(* src/Twitter/functions.py holds get_auth and the four extraction modes   *)
(* (timeline, replies, search, hashtag); src/Twitter/kedro-nodes.py holds  *)
(* the five batch orchestrators that run a mode over every row of an input *)
(* table.  One behaviour of the model is one orchestrator run on one input *)
(* table.  The remote API is the environment: for each extraction call it  *)
(* decides which raw items the cursor yields and whether it then raises.   *)
(*                                                                         *)
(* Python values that differ in type are tagged records: a str is          *)
(* Str(<<c1, ..., cn>>), the sequence of its characters (a word that no    *)
(* operation looks into is kept as one token), a missing cell is NaN,      *)
(* None is None, a list is List(<<...>>).                                  *)
(***************************************************************************)
EXTENDS Integers, Sequences, FiniteSets, TLC

\* Bounds of the model.
MaxRows == 2          \* rows of an input table
MaxTagRows == 1       \* rows of an input table in the hashtag-only specification
MaxLen == 2           \* characters of a hashtag cell
ExtractionSize == 2   \* extraction_size (10000 in the nodes), scaled down
MaxItems == ExtractionSize + 1   \* items the remote can have for one request

(***************************************************************************)
(* Python values                                                           *)
(***************************************************************************)
None == [t |-> "NoneType"]
NaN == [t |-> "float"]
Str(s) == [t |-> "str", v |-> s]
List(s) == [t |-> "list", v |-> s]
API == [t |-> "tweepy.API", wait_on_rate_limit |-> TRUE]
Unbound == [t |-> "unbound"]

\* What a call does: it returns a value or raises an exception.
Return(val) == [kind |-> "return", val |-> val]
Raise(type) == [kind |-> "raise", type |-> type]

\* pd.notna(cell)
notna(cell) == cell # NaN

\* f"{value}" : the text an f-string puts for a value
Format(value) == IF value.t = "str" THEN value.v ELSE <<"n", "a", "n">>

\* A replace that strips nothing: the variant C9 is tested against.
Replace_keep(s, old) == s

\* s.replace(old, '') on the characters of s, old one character
Replace(s, old) == SelectSeq(s, LAMBDA c : c # old)

\* tweet.entities.get(k, [])
entities_get(entities, k) == IF k \in DOMAIN entities THEN entities[k] ELSE <<>>

\* tweet.user.location + ''
location_plus_empty(location) ==
    IF location = None THEN Raise("TypeError") ELSE Return(location)

(***************************************************************************)
(* The remote API: raw items, and what a cursor does during one call.      *)
(***************************************************************************)
Locations == {None, Str(<<"S", "V">>)}

\* The k-th raw item of a request; only the author's location varies.
Tweet(k, location) ==
    [id_str |-> k, created_at |-> "created_at", full_text |-> "full_text",
     favorite_count |-> 0, retweet_count |-> 0,
     entities |-> [urls |-> <<"url">>],
     user |-> [id_str |-> "user_id", screen_name |-> "screen_name",
               verified |-> FALSE, followers_count |-> 0, friends_count |-> 0,
               lang |-> "lang", location |-> location]]

\* What the remote holds for one request: its items in order, and whether the
\* page request after the last of them raises a TweepyException.
Feeds ==
    UNION {{[items |-> [k \in 1..n |-> Tweet(k, locs[k])], fail |-> f] :
               locs \in [1..n -> Locations], f \in BOOLEAN} : n \in 0..MaxItems}

Min(a, b) == IF a < b THEN a ELSE b

\* Cursor(...).items(extraction_size): at most extraction_size items are yielded
Yielded(feed, extraction_size) ==
    SubSeq(feed.items, 1, Min(Len(feed.items), extraction_size))

\* the cursor raises once the remote's items are used up below the cap
CursorRaises(feed, extraction_size) ==
    feed.fail /\ Len(feed.items) < extraction_size

\* What the list comprehension pulled from the cursor before it stopped: the
\* items up to the first one whose record raised, and whether the cursor raised.
Pulled(feed, extraction_size) ==
    LET tweets == Yielded(feed, extraction_size)
        bad == {k \in 1..Len(tweets) : tweets[k].user.location = None}
        first == IF bad = {} THEN Len(tweets)
                 ELSE CHOOSE k \in bad : \A j \in bad : k <= j
    IN [yielded |-> SubSeq(tweets, 1, first),
        raised |-> bad = {} /\ CursorRaises(feed, extraction_size)]

(***************************************************************************)
(* functions.py                                                            *)
(***************************************************************************)
\* get_auth: the handle, or None when a TweepyException is caught
get_auth(raises) == IF raises THEN None ELSE API

\* try: return [record for tweet in tweets]  except TweepyException: print.
\* records[k] is what building the k-th record does.  An exception that is no
\* TweepyException leaves the function; after the except branch the function
\* falls off its end.
try_list(records, cursorRaises) ==
    LET bad == {k \in 1..Len(records) : records[k].kind = "raise"}
    IN IF bad # {}
       THEN records[CHOOSE k \in bad : \A j \in bad : k <= j]
       ELSE IF cursorRaises THEN Return(None)
       ELSE Return(List([k \in 1..Len(records) |-> records[k].val]))

\* The tuple of the timeline mode (16 fields).
timeline_record(screen_name, user_type, tweet) ==
    LET location == location_plus_empty(tweet.user.location)
    IN IF location.kind = "raise" THEN location
       ELSE Return(<<screen_name, user_type, tweet.id_str, tweet.created_at,
                     tweet.full_text, tweet.favorite_count, tweet.retweet_count,
                     entities_get(tweet.entities, "urls"),
                     entities_get(tweet.entities, "media"),
                     entities_get(tweet.entities, "hashtags"),
                     tweet.user.id_str, tweet.user.screen_name,
                     tweet.user.verified, tweet.user.followers_count,
                     tweet.user.friends_count, location.val>>)

\* The tuple of the replies, search and hashtag modes (17 fields).
search_record(key, language, tweet) ==
    LET location == location_plus_empty(tweet.user.location)
    IN IF location.kind = "raise" THEN location
       ELSE Return(<<key, language, tweet.id_str, tweet.created_at,
                     tweet.full_text, tweet.user.lang,
                     tweet.favorite_count, tweet.retweet_count,
                     entities_get(tweet.entities, "urls"),
                     entities_get(tweet.entities, "media"),
                     entities_get(tweet.entities, "hashtags"),
                     tweet.user.id_str, tweet.user.screen_name,
                     tweet.user.verified, tweet.user.followers_count,
                     tweet.user.friends_count, location.val>>)

\* f"to:{username}" and f"#{hashtag}"
replies_query(username) == Str(<<"t", "o", ":">> \o Format(username))
hashtag_query(hashtag) == Str(<<"#">> \o Format(hashtag))

extract_tweets_from_user_timeline(api, screen_name, user_type, feed, extraction_size) ==
    IF api = None THEN Raise("AttributeError")
    ELSE LET tweets == Yielded(feed, extraction_size)
         IN try_list([k \in 1..Len(tweets) |->
                         timeline_record(screen_name, user_type, tweets[k])],
                     CursorRaises(feed, extraction_size))

extract_replies_to_user(api, username, language, feed, extraction_size) ==
    IF api = None THEN Raise("AttributeError")
    ELSE LET tweets == Yielded(feed, extraction_size)
         IN try_list([k \in 1..Len(tweets) |->
                         search_record(username, language, tweets[k])],
                     CursorRaises(feed, extraction_size))

extract_tweets_from_search(api, query, language, feed, extraction_size) ==
    IF api = None THEN Raise("AttributeError")
    ELSE LET tweets == Yielded(feed, extraction_size)
         IN try_list([k \in 1..Len(tweets) |->
                         search_record(query, language, tweets[k])],
                     CursorRaises(feed, extraction_size))

extract_tweets_from_hashtag(api, hashtag, language, feed, extraction_size) ==
    IF api = None THEN Raise("AttributeError")
    ELSE LET tweets == Yielded(feed, extraction_size)
         IN try_list([k \in 1..Len(tweets) |->
                         search_record(hashtag_query(hashtag), language, tweets[k])],
                     CursorRaises(feed, extraction_size))

(***************************************************************************)
(* kedro-nodes.py                                                          *)
(***************************************************************************)
Nodes == {"extract_user_timelines", "extract_replies_to_users",
          "extract_search_users", "extract_tweets_from_hashtags",
          "extract_tweets_from_queries"}

\* pd.DataFrame(data=rows, columns=columns)
DataFrame(rows, columns) == [columns |-> columns, rows |-> rows]

\* The input tables: cells of the key column are a text or missing.
Texts == UNION {[1..n -> {"#", "s"}] : n \in 0..MaxLen}
InputColumns(node) ==
    CASE node = "extract_tweets_from_hashtags" -> <<"hashtag">>
      [] node = "extract_tweets_from_queries" -> <<"query">>
      [] OTHER -> <<"username_twitter", "type">>
InputRows(node) ==
    CASE node = "extract_tweets_from_hashtags" ->
            {[hashtag |-> h] : h \in {NaN} \cup {Str(s) : s \in Texts}}
      [] node = "extract_tweets_from_queries" ->
            {[query |-> q] : q \in {NaN, Str(<<"sale">>)}}
      [] OTHER ->
            {[username_twitter |-> u, type |-> ty] :
                u \in {NaN, Str(<<"alice">>)},
                ty \in {Str(<<"customer">>), Str(<<"competitor">>)}}
Tables(node, maxRows) ==
    {DataFrame(rows, InputColumns(node)) :
        rows \in UNION {[1..n -> InputRows(node)] : n \in 0..maxRows}}

\* The column a node's loop reads its key from.
KeyColumn(node) ==
    CASE node = "extract_tweets_from_hashtags" -> "text"
      [] node = "extract_tweets_from_queries" -> "query"
      [] OTHER -> "username_twitter"

\* Whether the loop body is under `if pd.notna(row[key])`.
HasGuard(node) == node # "extract_tweets_from_queries"

\* Whether the loop body makes two extraction calls.
Dual(node) == node # "extract_user_timelines"

\* The language= of the first and of the second call of a loop body.
FirstLanguage(node) == "en"
SecondLanguage(node) ==
    IF node = "extract_tweets_from_queries" THEN "en" ELSE "es"

\* The mode a node calls, and the query that mode gives the cursor.
ModeOf(node) ==
    CASE node = "extract_user_timelines" -> "extract_tweets_from_user_timeline"
      [] node = "extract_replies_to_users" -> "extract_replies_to_user"
      [] node = "extract_tweets_from_hashtags" -> "extract_tweets_from_hashtag"
      [] OTHER -> "extract_tweets_from_search"
QueryOf(node, key) ==
    CASE node = "extract_replies_to_users" -> replies_query(key)
      [] node = "extract_tweets_from_hashtags" -> hashtag_query(key)
      [] OTHER -> key

\* One extraction call of a node's loop body on `row`.
Extract(node, api, row, language, feed) ==
    CASE node = "extract_user_timelines" ->
            extract_tweets_from_user_timeline(
                api, row["username_twitter"], row["type"], feed, ExtractionSize)
      [] node = "extract_replies_to_users" ->
            extract_replies_to_user(
                api, row["username_twitter"], language, feed, ExtractionSize)
      [] node = "extract_search_users" ->
            extract_tweets_from_search(
                api, row["username_twitter"], language, feed, ExtractionSize)
      [] node = "extract_tweets_from_hashtags" ->
            extract_tweets_from_hashtag(
                api, row["text"], language, feed, ExtractionSize)
      [] OTHER ->
            extract_tweets_from_search(
                api, row["query"], language, feed, ExtractionSize)

\* if tweets is not None and len(tweets) > 0: acc.extend(tweets)
extend(acc, tweets) ==
    IF tweets # None /\ Len(tweets.v) > 0 THEN acc \o tweets.v ELSE acc

\* The columns of a node's result table.
Schema(node) ==
    CASE node = "extract_user_timelines" ->
            <<"extracted_user", "type", "id", "created_at", "text", "likes",
              "retweets", "urls", "medias", "hashtags", "user_id",
              "user_screen_name", "user_verified", "user_followers",
              "user_following", "location">>
      [] OTHER ->
            <<CASE node = "extract_replies_to_users" -> "extracted_user"
                [] node = "extract_search_users" -> "searched_user"
                [] node = "extract_tweets_from_hashtags" -> "hashtag"
                [] OTHER -> "search_query",
              "requested_language", "id", "created_at", "text", "language",
              "likes", "retweets", "urls", "medias", "hashtags", "user_id",
              "user_screen_name", "user_verified", "user_followers",
              "user_following", "location">>

(***************************************************************************)
(* State of one orchestrator run                                           *)
(***************************************************************************)
VARIABLES
    node,     \* the orchestrator that runs
    data,     \* the caller's input DataFrame
    pc,       \* where the run is
    api,      \* the local api
    i,        \* the row iterrows() is at
    first,    \* what the first call of the loop body returned
    second,   \* what the second call of the loop body returned
    acc,      \* the list the records are collected in
    out,      \* the DataFrame the run returned
    exc,      \* the exception that left the run
    calls,    \* the extraction calls made so far
    fetch,    \* what the latest call pulled from its cursor
    ret       \* what the latest call did

vars == <<node, data, pc, api, i, first, second, acc, out, exc, calls, fetch, ret>>

InitRun ==
    /\ pc = "get_auth"
    /\ api = Unbound
    /\ i = 1
    /\ first = Unbound
    /\ second = Unbound
    /\ acc = <<>>
    /\ out = Unbound
    /\ exc = Unbound
    /\ calls = <<>>
    /\ fetch = Unbound
    /\ ret = Unbound

Init ==
    /\ node \in Nodes
    /\ data \in Tables(node, MaxRows)
    /\ InitRun

InitHashtags ==
    /\ node = "extract_tweets_from_hashtags"
    /\ data \in Tables(node, MaxTagRows)
    /\ InitRun

\* api = get_auth(...)
GetAuth ==
    /\ pc = "get_auth"
    /\ \E raises \in BOOLEAN : api' = get_auth(raises)
    /\ pc' = IF node = "extract_tweets_from_hashtags" THEN "apply" ELSE "for"
    /\ UNCHANGED <<node, data, i, first, second, acc, out, exc, calls, fetch, ret>>

\* hashtags = data; hashtags['text'] = data['hashtag'].apply(lambda ...)
Apply ==
    /\ pc = "apply"
    /\ IF \E k \in 1..Len(data.rows) : data.rows[k]["hashtag"].t # "str"
       THEN /\ pc' = "raised"
            /\ exc' = [type |-> "AttributeError", in |-> "apply"]
            /\ data' = data
       ELSE /\ pc' = "for"
            /\ exc' = exc
            /\ data' = DataFrame(
                   [k \in 1..Len(data.rows) |->
                      [c \in DOMAIN data.rows[k] \cup {"text"} |->
                         IF c = "text"
                         THEN Str(Replace(data.rows[k]["hashtag"].v, "#"))
                         ELSE data.rows[k][c]]],
                   data.columns \o <<"text">>)
    /\ UNCHANGED <<node, api, i, first, second, acc, out, calls, fetch, ret>>

\* for index, row in data.iterrows(): [if pd.notna(row[key]):]   ... return
For ==
    /\ pc = "for"
    /\ IF i > Len(data.rows)
       THEN /\ pc' = "done"
            /\ out' = DataFrame(acc, Schema(node))
            /\ i' = i
       ELSE IF HasGuard(node) /\ ~notna(data.rows[i][KeyColumn(node)])
       THEN /\ pc' = "for"
            /\ out' = out
            /\ i' = i + 1
       ELSE /\ pc' = "first"
            /\ out' = out
            /\ i' = i
    /\ UNCHANGED <<node, data, api, first, second, acc, exc, calls, fetch, ret>>

\* The request of an extraction call, as the call log keeps it: the row, the
\* mode, its key argument, its language= (user_type= in the timeline mode) and
\* the query the mode gives the cursor.
Request(language) ==
    [row |-> i, mode |-> ModeOf(node), key |-> data.rows[i][KeyColumn(node)],
     arg |-> IF Dual(node) THEN language ELSE data.rows[i]["type"],
     q |-> QueryOf(node, data.rows[i][KeyColumn(node)])]

\* What the call pulled from the cursor; without a handle no cursor is made.
Fetch(feed) ==
    IF api = None THEN [yielded |-> <<>>, raised |-> FALSE]
    ELSE Pulled(feed, ExtractionSize)

\* What an extraction call on the current row can do and pull, over all the
\* remote can hold for it.
Call(language) ==
    {[ret |-> Extract(node, api, data.rows[i], language, feed),
      fetch |-> Fetch(feed)] : feed \in Feeds}

\* the first extraction call of the loop body
First ==
    /\ pc = "first"
    /\ \E call \in Call(FirstLanguage(node)) :
         LET o == call.ret
         IN /\ calls' = Append(calls, Request(FirstLanguage(node)))
            /\ fetch' = call.fetch
            /\ ret' = o
            /\ IF o.kind = "raise"
               THEN /\ pc' = "raised"
                    /\ exc' = [type |-> o.type, in |-> ModeOf(node)]
                    /\ first' = first
               ELSE /\ pc' = IF Dual(node) THEN "second" ELSE "extend"
                    /\ exc' = exc
                    /\ first' = o.val
    /\ UNCHANGED <<node, data, api, i, second, acc, out>>

\* the second extraction call of the loop body
Second ==
    /\ pc = "second"
    /\ \E call \in Call(SecondLanguage(node)) :
         LET o == call.ret
         IN /\ calls' = Append(calls, Request(SecondLanguage(node)))
            /\ fetch' = call.fetch
            /\ ret' = o
            /\ IF o.kind = "raise"
               THEN /\ pc' = "raised"
                    /\ exc' = [type |-> o.type, in |-> ModeOf(node)]
                    /\ second' = second
               ELSE /\ pc' = "extend"
                    /\ exc' = exc
                    /\ second' = o.val
    /\ UNCHANGED <<node, data, api, i, first, acc, out>>

\* the `if ... is not None and len(...) > 0: ....extend(...)` of the loop body
Extend ==
    /\ pc = "extend"
    /\ acc' = IF Dual(node) THEN extend(extend(acc, first), second)
              ELSE extend(acc, first)
    /\ i' = i + 1
    /\ pc' = "for"
    /\ first' = Unbound
    /\ second' = Unbound
    /\ fetch' = Unbound
    /\ ret' = Unbound
    /\ UNCHANGED <<node, data, api, out, exc, calls>>

Next == GetAuth \/ Apply \/ For \/ First \/ Second \/ Extend

\* One run of any of the five nodes.
Spec == Init /\ [][Next]_vars

\* One run of extract_tweets_from_hashtags.
SpecHashtags == InitHashtags /\ [][Next]_vars

(***************************************************************************)
(* Properties                                                              *)
(***************************************************************************)
\* The cell of row r in the key column of the input table.
InputKey(r) == data.rows[r][InputColumns(node)[1]]

\* The calls made for row r, in order.
RowCalls(r) == SelectSeq(calls, LAMBDA c : c.row = r)

\* The number of hashtag markers in a text.
Marks(s) == Len(SelectSeq(s, LAMBDA c : c = "#"))

\* A call has just been made with a handle, and its outcome is in ret.
Called == pc \in {"second", "extend", "raised"} /\ ret # Unbound /\ api = API

\* What the code does when the cursor raises: the mode returns None, whatever
\* was yielded before, and the node goes on.
FetchErrorGivesNone ==
    (Called /\ fetch.raised) => (ret = Return(None) /\ pc # "raised")

\* The exceptions that leave a node: a missing handle or hashtag cell
\* (AttributeError), an item without location (TypeError).
ExceptionsThatLeave ==
    pc = "raised" =>
      \/ exc = [type |-> "AttributeError", in |-> "apply"]
      \/ exc = [type |-> "AttributeError", in |-> ModeOf(node)] /\ api = None
      \/ exc = [type |-> "TypeError", in |-> ModeOf(node)] /\ api = API

\* C1: in every node no extraction call is made for a row whose key cell is
\* missing, and when the run returns the rows extraction was called for are
\* exactly the rows whose key cell is present.
C1_BlankRowsSkipped ==
    /\ \A k \in 1..Len(calls) : notna(InputKey(calls[k].row))
    /\ pc = "done" =>
          {calls[k].row : k \in 1..Len(calls)}
             = {r \in 1..Len(data.rows) : notna(InputKey(r))}

\* C2: when the cursor raises after it yielded k items, 0 < k < extraction_size,
\* the mode returns the list of the k records of those items, in order.
C2_PartialResultsKept ==
    (Called /\ fetch.raised /\ Len(fetch.yielded) > 0
            /\ Len(fetch.yielded) < ExtractionSize)
    => /\ ret.kind = "return"
       /\ ret.val.t = "list"
       /\ Len(ret.val.v) = Len(fetch.yielded)
       /\ \A j \in 1..Len(fetch.yielded) :
             ret.val.v[j][3] = fetch.yielded[j].id_str

\* C3: whenever the cursor raises, at any point, the mode returns an empty
\* sequence, never None.
C3_EmptyOnFailure ==
    (Called /\ fetch.raised)
    => /\ ret.kind = "return"
       /\ ret.val # None
       /\ ret.val = List(<<>>)

\* C4: with a handle, no failure of an extraction call leaves the node as an
\* exception, and the node returns only after extraction was called for every
\* row whose key is present.
C4_PerRowIsolation ==
    api = API =>
      /\ ~(pc = "raised" /\ exc.in = ModeOf(node))
      /\ pc = "done" =>
            \A r \in 1..Len(data.rows) : notna(InputKey(r)) => RowCalls(r) # <<>>

\* C5: in the four dual-language nodes a row gets no call or two calls, and the
\* two calls have the same key and the languages "en" then "es".
C5_TwoLanguagesPerRow ==
    Dual(node) =>
      \A r \in 1..Len(data.rows) :
         LET cs == RowCalls(r)
         IN /\ Len(cs) <= 2
            /\ (pc \in {"for", "done"} /\ i > r) => Len(cs) \in {0, 2}
            /\ Len(cs) = 2 =>
                  /\ cs[1].key = cs[2].key
                  /\ cs[1].arg = "en"
                  /\ cs[2].arg = "es"

\* C6: when get_auth failed the run is aborted at once: it is not in the row
\* loop, has made no extraction call and has returned no table.
C6_AuthFailureAborts ==
    api = None => (pc = "raised" /\ calls = <<>> /\ out = Unbound)

\* C7: with a handle and a cursor that does not raise, the mode returns one
\* record per yielded item, whose last field is the item's location, or the
\* empty string when the item has none.
C7_LocationNeverNull ==
    (Called /\ ~fetch.raised)
    => /\ ret.kind = "return"
       /\ ret.val.t = "list"
       /\ Len(ret.val.v) = Len(fetch.yielded)
       /\ \A j \in 1..Len(fetch.yielded) :
             LET record == ret.val.v[j]
                 location == fetch.yielded[j].user.location
             IN record[Len(record)]
                   = IF location = None THEN Str(<<>>) ELSE location

\* C9: in the hashtag node the query of every call is "#" followed by the tag
\* the mode was given, every record the call returns has that query as its
\* first field, and an input cell t or "#" + t, t without a marker, gives the
\* query "#" + t, which holds one marker.
C9_HashtagQuery ==
    /\ \A k \in 1..Len(calls) :
          LET c == calls[k]
              h == InputKey(c.row).v
          IN /\ c.q = Str(<<"#">> \o c.key.v)
             /\ \A t \in Texts :
                   (Marks(t) = 0 /\ (h = t \/ h = <<"#">> \o t))
                   => (c.q = Str(<<"#">> \o t) /\ Marks(c.q.v) = 1)
    /\ (ret # Unbound /\ ret.kind = "return" /\ ret.val # None)
       => \A j \in 1..Len(ret.val.v) : ret.val.v[j][1] = calls[Len(calls)].q
    /\ \A j \in 1..Len(acc) : \E k \in 1..Len(calls) : acc[j][1] = calls[k].q

\* C9 happens: a call for the input cell "#s" returned a record, keyed "#s".
C9_Witness ==
    /\ node = "extract_tweets_from_hashtags"
    /\ calls # <<>>
    /\ InputKey(calls[Len(calls)].row) = Str(<<"#", "s">>)
    /\ ret # Unbound
    /\ ret.kind = "return"
    /\ ret.val # None
    /\ Len(ret.val.v) > 0
    /\ ret.val.v[1][1] = Str(<<"#", "s">>)

\* C10: no step of a node changes the input table it was given.
C10_InputUnchanged == [][data' = data]_vars

====
